---- MODULE Spec2Model ----
(***************************************************************************)
(* mfpdl (src/src/main.rs): a downloader that scrapes an index page,       *)
(* resolves one file URL per episode and streams every file to disk, with  *)
(* the transfers gated by a semaphore of n_jobs permits and a vector of    *)
(* n_jobs progress bars, each behind a mutex.                              *)
(*                                                                         *)
(* All futures of a run are joined inside the one main task, so they       *)
(* interleave only at their .await points: one action of this model is the *)
(* code that runs from one .await to the next.  A task that returns Err    *)
(* drops its own guard and permit in that step.  try_join_all passes the   *)
(* results of the episode futures on in list order, so the join resolves   *)
(* in that step only if the task is latest_fut or every episode before it  *)
(* has returned Ok; `?` then carries the error to main without any .await  *)
(* and the futures still in flight are dropped.  Otherwise they go on.     *)
(***************************************************************************)
EXTENDS Integers, Sequences, FiniteSets

\* ---------------------------------------------------------------- bounds
MaxJobs == 2
MaxItems == 2

\* File names that the scraped file URLs may end in (href$=mp3).  The name
\* of the latest file stands for any one name; the first listed episode may
\* be the latest one again and have the same file, the episodes after it
\* have another file, which they share.
FileNames == {"a.mp3", "b.mp3"}
LatestNames == {"a.mp3"}
ItemNames(t) == IF t = 1 THEN FileNames ELSE FileNames \ LatestNames
OutDir == "out"

\* Option<T>: None is the empty set, Some(x) the singleton.
None == {}
Some(x) == {x}
Unwrap(o) == CHOOSE x \in o : TRUE

Latest == 0
Tasks == 0..MaxItems
\* Content lengths a response may report (a body of two bytes arrives as one
\* chunk or as two); MaxLen is the largest.
Lengths == {2}
MaxLen == CHOOSE n \in Lengths : \A m \in Lengths : m <= n
\* The bytes a tokio File takes into its buffer per write (16 KiB in the
\* source), scaled with Lengths so that a chunk may fit or exceed it.
MaxBuf == 1

VARIABLES
    jobs,        \* n_jobs, the parsed --jobs value
    latestOnly,  \* matches.is_present("latest")
    mainPc,      \* where main() is
    runError,    \* the error main() returned, "" while there is none
    nItems,      \* number of elements selected by MFP_EP_SELECTOR
    permits,     \* permits available in sema
    waiters,     \* futures queued in sema.acquire(), oldest first
    bars,        \* bars[i]: the i-th Mutex<ProgressBar>
    tpc,         \* tpc[t]: where download future t is
    resp,        \* resp[t]: the Response handed to download_with_sema
    path,        \* path[t]: the destination path of task t
    held,        \* held[t]: task t owns a SemaphorePermit (_permit)
    slot,        \* slot[t]: the bar whose MutexGuard task t owns (pb)
    chunk,       \* chunk[t]: the chunk inside write_all: its size, and the
                 \* bytes of it the File has not taken yet
    result,      \* result[t]: how download future t ended
    acquired,    \* acquired[t]: times task t obtained a permit
    files,       \* files[p]: the file at path p, None when absent
    orphans      \* paths whose open is queued on a blocking thread while
                 \* the future that issued it is gone

vars == <<jobs, latestOnly, mainPc, runError, nItems, permits, waiters, bars, tpc, resp,
          path, held, slot, chunk, result, acquired, files, orphans>>

\* ------------------------------------------------------------ paths, files
\* outdir.join(fname)
PathJoin(dir, fname) == <<dir, fname>>

\* Path::file_name: the last component, None when the path ends in "..".
FileName(p) ==
    IF Len(p) = 0 \/ p[Len(p)] = ".." THEN None ELSE Some(p[Len(p)])

Paths == {PathJoin(OutDir, f) : f \in FileNames}

\* A file: its size on disk, the number of times it was opened for writing
\* by this run (a file that was there before the run was never opened), and
\* the state of the tokio::fs::File writing it: the bytes write_all has taken
\* into the File's buffer that the blocking thread has not yet written, and
\* whether the last write of the blocking thread failed.
NewFile == [size |-> 0, opened |-> 1, buffered |-> 0, failed |-> FALSE]
PreExisting(n) == [size |-> n, opened |-> 0, buffered |-> 0, failed |-> FALSE]

\* Sizes of the files already in the output directory, and the names they
\* may have: a file of an earlier run has the name of the latest file, which
\* episodes may share; the other name is always new.
PreSizes == {1}
PreNames == LatestNames

\* Faulty open: create(true).append(true), which opens an existing file too.
CreateAppend(fs, p) ==
    IF fs[p] # None
    THEN Some([fs EXCEPT ![p] = Some([Unwrap(@) EXCEPT !.opened = @ + 1])])
    ELSE Some([fs EXCEPT ![p] = Some(NewFile)])

\* OpenOptions::new().create_new(true).write(true).open(&path) on the file
\* system fs: None for AlreadyExists, otherwise the file system with the new,
\* empty file.
CreateNew(fs, p) ==
    IF fs[p] # None THEN None ELSE Some([fs EXCEPT ![p] = Some(NewFile)])

\* ------------------------------------------------------------ the bars
\* The indices of the bars built at lines 163-173: 1..n_jobs once main has
\* got there, none before.
Bars == DOMAIN bars

\* ProgressBar::new(0) behind Mutex::new
NewBar == [holder |-> None, length |-> 0, position |-> 0, message |-> "",
           finished |-> FALSE]

\* Faulty scan: takes the first bar whether or not its mutex is locked.
FirstFreeIgnoringLocks(b) ==
    IF DOMAIN b = {} THEN None
    ELSE Some(CHOOSE i \in DOMAIN b : \A j \in DOMAIN b : i <= j)

\* bars.iter().filter_map(|mutex| mutex.try_lock()).nth(0): the first bar,
\* in vector order, whose mutex is not locked.
FirstFree(b) ==
    LET free == {i \in DOMAIN b : b[i].holder = None}
    IN  IF free = {} THEN None
        ELSE Some(CHOOSE i \in free : \A j \in free : i <= j)

\* Faulty lock: the guard is not kept, the bar stays unlocked.
LockBarDropped(b, i, t) == b

\* Mutex::try_lock succeeded: the guard pb belongs to task t.
LockBar(b, i, t) == [b EXCEPT ![i].holder = Some(t)]

\* Faulty release: the guards are leaked.
ReleaseBarsLeak(b, S) == b

\* Drop of the MutexGuards owned by the tasks in S.
ReleaseBars(b, S) ==
    [i \in DOMAIN b |->
        IF \E t \in S : b[i].holder = Some(t)
        THEN [b[i] EXCEPT !.holder = None] ELSE b[i]]

\* ------------------------------------------------------------ the semaphore
\* Faulty construction: one permit more than there are bars.
SemaNewOffByOne(n) == n + 1

\* Semaphore::new(n_jobs)
SemaNew(n) == n

\* tokio::sync::Semaphore: "When acquire is called and the semaphore has
\* remaining permits, the function immediately returns a permit.  However, if
\* no remaining permits are available, acquire (asynchronously) waits until
\* an outstanding permit is dropped.  At this point, the freed permit is
\* assigned to the caller."  Waiting callers are served oldest first.

\* sema.acquire() returns at once only when a permit is available.
PermitAvailable(p) == p > 0

\* Faulty release: the permit is handed to the oldest waiter and also put
\* back into the semaphore.
HandOffTwice(p, q) ==
    IF q = <<>>
    THEN [permits |-> p + 1, granted |-> None, waiters |-> q]
    ELSE [permits |-> p + 1, granted |-> Some(Head(q)), waiters |-> Tail(q)]

\* Faulty release: the permit goes back to the semaphore and the oldest
\* waiter is not woken.
HandOffNone(p, q) == [permits |-> p + 1, granted |-> None, waiters |-> q]

\* Drop of one SemaphorePermit with p permits available and the queue q: the
\* permit goes to the oldest waiter, which is woken, or back to the
\* semaphore when nobody waits.
HandOff(p, q) ==
    IF q = <<>>
    THEN [permits |-> p + 1, granted |-> None, waiters |-> q]
    ELSE [permits |-> p, granted |-> Some(Head(q)), waiters |-> Tail(q)]

\* Faulty release: the permits are leaked.
ReleasePermitsLeak(p, h, S) == p

\* Drop of the permits owned by the tasks in S (h is held) when no waiter
\* is left to take them: they go back to the semaphore.
ReleasePermits(p, h, S) == p + Cardinality({t \in S : h[t]})

\* ------------------------------------------------------------ the tasks
\* States of a download future that has not returned and was not dropped.
Live == {"Created", "Scraping", "Requesting", "Waiting", "Granted", "Opening",
         "OpenedNew", "OpenedExists", "OpenedErr", "Streaming", "Writing"}

\* States between the return of sema.acquire() and the return of
\* download_with_sema.
InTransfer == {"Opening", "OpenedNew", "OpenedExists", "OpenedErr", "Streaming",
               "Writing"}

\* Faulty wait: latest_fut alone is awaited, with or without --latest.
AwaitedLatestAlone == {Latest}

\* The futures cleanup_after_download_fut awaits: latest_fut alone under
\* --latest, otherwise try_join(latest_fut, downloads_joined).
Awaited == IF latestOnly THEN {Latest} ELSE 0..nItems

Running(t) == mainPc = "Joining" /\ t \in Awaited

\* Faulty fan-out: the last listed episode is left out.
FirstPollSkipLast(tp, k, lo) ==
    [u \in Tasks |-> IF u \in 1..(k - 1) /\ ~lo THEN "Scraping" ELSE tp[u]]

\* Faulty fan-out: --latest is not consulted.
FirstPollIgnoringFlag(tp, k, lo) ==
    [u \in Tasks |-> IF u \in 1..k THEN "Scraping" ELSE tp[u]]

\* Faulty order: the episode futures ask for a permit first, before their
\* file URL is resolved.
FirstPollGated(tp, k, lo) ==
    [u \in Tasks |-> IF u \in 1..k /\ ~lo THEN "Waiting" ELSE tp[u]]

\* The futures of the k listed episodes once try_join has polled
\* downloads_joined for the first time: each is at its subpage request.
\* Under --latest (lo) they are built but never polled.
FirstPoll(tp, k, lo) ==
    [u \in Tasks |-> IF u \in 1..k /\ ~lo THEN "Scraping" ELSE tp[u]]

\* Future t was polled at least once.
Dispatched(t) == tpc[t] \notin {"Absent", "Created", "NeverPolled"}

\* A response: the length content_length() reports and the bytes the body
\* stream has yielded so far.  The body of a response with a known length
\* ends only after that many bytes; a shorter body is a stream error.
NewResponse(cl) == [content_length |-> cl, delivered |-> 0]
NoResponse == NewResponse(None)

\* Faulty length: unwrap_or(0) in place of the LengthUnknown error.
ContentLengthOrZero(r) ==
    IF r.content_length = None THEN Some(0) ELSE r.content_length

\* resp.content_length(): the total length, None when the response reports
\* none.
ContentLength(r) == r.content_length

\* The chunk a task has inside write_all: bytes.len() and the bytes of it
\* that the File has still to take; NoChunk between two chunks.
NewChunk(c, r) == [len |-> c, rest |-> r]
NoChunk == NewChunk(0, 0)

Init ==
    /\ jobs \in 1..MaxJobs
    /\ latestOnly \in BOOLEAN
    /\ mainPc = "Starting"
    /\ runError = ""
    /\ nItems = 0
    /\ permits = 0
    /\ waiters = <<>>
    /\ bars = <<>>
    /\ tpc = [t \in Tasks |-> "Absent"]
    /\ resp = [t \in Tasks |-> NoResponse]
    /\ path = [t \in Tasks |-> <<>>]
    /\ held = [t \in Tasks |-> FALSE]
    /\ slot = [t \in Tasks |-> None]
    /\ chunk = [t \in Tasks |-> NoChunk]
    /\ result = [t \in Tasks |-> "Pending"]
    /\ acquired = [t \in Tasks |-> 0]
    /\ files \in [Paths -> {None} \cup {Some(PreExisting(n)) : n \in PreSizes}]
    /\ \A f \in FileNames \ PreNames : files[PathJoin(OutDir, f)] = None
    /\ orphans = {}

\* ------------------------------------------------------------ returning
\* future::try_join_all(dl_futs) (line 220) collects the episode futures,
\* which come from an iterator of unknown length, into a FuturesOrdered: the
\* futures run in any order and their results are passed on in list order.
\* The listed episode whose result is the next to be passed on, with future
\* states tp: the first one that has not returned Ok; None when all have.
NextOutgoing(tp) ==
    LET open == {u \in 1..nItems : tp[u] # "Ok"}
    IN  IF open = {} THEN None
        ELSE Some(CHOOSE u \in open : \A v \in open : u <= v)

\* try_join(latest_fut, downloads_joined) (line 233), or latest_fut alone
\* under --latest (line 231), resolves Err with future states tp: latest_fut
\* has returned Err, or the next result of the ordered join is an Err.  The
\* Err of a listed episode waits until every episode before it has returned.
Resolves(tp) ==
    \/ tp[Latest] = "Err"
    \/ /\ ~latestOnly
       /\ NextOutgoing(tp) # None
       /\ tp[Unwrap(NextOutgoing(tp))] = "Err"

\* The error the join resolves with, results res.
JoinError(tp, res) ==
    IF tp[Latest] = "Err" THEN res[Latest] ELSE res[Unwrap(NextOutgoing(tp))]

\* Task t has returned (to, "Ok" or "Err") with permits p, bars b, permit
\* ownership h, future states tp and results res as its step has left them.
\* Its locals are dropped in reverse declaration order, the MutexGuard and
\* then the SemaphorePermit, which passes to the oldest waiter if there is
\* one.  When this makes the join resolve Err, `?` carries the error through
\* cleanup_after_download_fut and the outer try_join to main without an
\* .await, and every future still alive is dropped with what it owns: its
\* place in the semaphore's queue, its guard and its permit.  When every
\* awaited future has returned Ok, cleanup_after_download_fut goes on to
\* finish the bars.  Otherwise the other futures go on.  (\E x \in {e}
\* names the value e, which is then computed once.)
Return(t, to, p, b, h, tp, res) ==
    \E ho \in {IF h[t] THEN HandOff(p, waiters)
                ELSE [permits |-> p, granted |-> None, waiters |-> waiters]} :
    \E tp1 \in {[u \in Tasks |->
                   IF u = t THEN to
                   ELSE IF ho.granted = Some(u) THEN "Granted"
                   ELSE tp[u]]} :
    \E h1 \in {[u \in Tasks |->
                  IF u = t THEN FALSE
                  ELSE IF ho.granted = Some(u) THEN TRUE
                  ELSE h[u]]} :
    \E b1 \in {ReleaseBars(b, {t})} :
        /\ result' = res
        /\ IF Resolves(tp1)
           THEN \E dropped \in {{u \in Tasks : tp1[u] \in Live}} :
                    /\ tpc' = [u \in Tasks |->
                                IF tp1[u] = "Created" THEN "NeverPolled"
                                ELSE IF tp1[u] \in Live THEN "Dropped"
                                ELSE tp1[u]]
                    /\ bars' = ReleaseBars(b1, dropped)
                    /\ permits' = ReleasePermits(ho.permits, h1, dropped)
                    /\ waiters' = <<>>
                    /\ held' = [u \in Tasks |-> IF u \in dropped THEN FALSE ELSE h1[u]]
                    /\ slot' = [u \in Tasks |->
                                 IF u \in dropped \cup {t} THEN None ELSE slot[u]]
                    /\ mainPc' = "Failed"
                    /\ runError' = JoinError(tp1, res)
           ELSE /\ tpc' = tp1
                /\ bars' = b1
                /\ permits' = ho.permits
                /\ waiters' = ho.waiters
                /\ held' = h1
                /\ slot' = [slot EXCEPT ![t] = None]
                /\ mainPc' = IF \A u \in Awaited : tp1[u] = "Ok"
                             THEN "Finishing" ELSE mainPc
                /\ UNCHANGED runError

\* The opens left behind when the futures in S are dropped with the states
\* tp: an open that was issued (lines 59-63) runs on a blocking thread, which
\* the drop of the future that awaits it does not stop.
Orphaned(S, tp) == {path[u] : u \in {v \in S : tp[v] = "Opening"}}

\* The locals of the futures that are gone when task t returns (to) with
\* future states tp: the response, path and chunk of t, and, when the join
\* resolves Err, those of every other live future, whose opens stay queued.
Forget(t, to, tp) ==
    \E others \in {IF Resolves([tp EXCEPT ![t] = to])
                    THEN {u \in Tasks \ {t} : tp[u] \in Live} ELSE {}} :
        /\ resp' = [u \in Tasks |->
                      IF u \in others \cup {t} THEN NoResponse ELSE resp[u]]
        /\ path' = [u \in Tasks |->
                      IF u \in others \cup {t} THEN <<>> ELSE path[u]]
        /\ chunk' = [u \in Tasks |->
                       IF u \in others \cup {t} THEN NoChunk ELSE chunk[u]]
        /\ orphans' = orphans \cup Orphaned(others, tp)

\* Faulty join: an Err of task t is kept with the task and never makes the
\* join resolve.
FailWithoutFailFast(t, e, p, b, h, tp) ==
    /\ tpc' = [tp EXCEPT ![t] = "Err"]
    /\ result' = [result EXCEPT ![t] = e]
    /\ bars' = ReleaseBars(b, {t})
    /\ permits' = ReleasePermits(p, h, {t})
    /\ held' = [h EXCEPT ![t] = FALSE]
    /\ slot' = [slot EXCEPT ![t] = None]
    /\ UNCHANGED <<mainPc, runError, waiters>>

\* Task t returns Err(e).
Fail(t, e, p, b, h, tp) ==
    Return(t, "Err", p, b, h, tp, [result EXCEPT ![t] = e])

\* Task t returns Ok(()) with outcome o and bars b.
Succeed(t, o, b) ==
    /\ Return(t, "Ok", permits, b, held, tpc, [result EXCEPT ![t] = o])
    /\ Forget(t, "Ok", tpc)

\* Future t panics (e) while it is polled, with permits p, bars b, permit
\* ownership h and future states tp as the poll has left them: the unwinding
\* drops every future with what it owns and ends main, whatever the place of
\* t in the list; the opens that were issued stay queued.
Unwind(t, e, p, b, h, tp) ==
    \E dropped \in {{u \in Tasks : tp[u] \in Live} \cup {t}} :
        /\ tpc' = [u \in Tasks |->
                    IF u = t THEN "Err"
                    ELSE IF tp[u] = "Created" THEN "NeverPolled"
                    ELSE IF tp[u] \in Live THEN "Dropped"
                    ELSE tp[u]]
        /\ result' = [result EXCEPT ![t] = e]
        /\ bars' = ReleaseBars(b, dropped)
        /\ permits' = ReleasePermits(p, h, dropped)
        /\ waiters' = <<>>
        /\ held' = [u \in Tasks |-> IF u \in dropped THEN FALSE ELSE h[u]]
        /\ slot' = [u \in Tasks |-> IF u \in dropped THEN None ELSE slot[u]]
        /\ mainPc' = "Failed"
        /\ runError' = e
        /\ resp' = [u \in Tasks |-> IF u \in dropped THEN NoResponse ELSE resp[u]]
        /\ path' = [u \in Tasks |-> IF u \in dropped THEN <<>> ELSE path[u]]
        /\ chunk' = [u \in Tasks |-> IF u \in dropped THEN NoChunk ELSE chunk[u]]
        /\ orphans' = orphans \cup Orphaned(dropped, tp)

\* Faulty start: the failure is noted and main goes on to the latest page.
MainFailIgnored(e) ==
    /\ mainPc' = "ScrapingLatest"
    /\ runError' = e
    /\ tpc' = tpc

\* main returns Err(e) before any download future is polled.
MainFail(e) ==
    /\ mainPc' = "Failed"
    /\ runError' = e
    /\ tpc' = [u \in Tasks |-> IF tpc[u] = "Created" THEN "NeverPolled" ELSE tpc[u]]

\* ------------------------------------------------------------ download_with_sema
\* The permit count once sema.acquire() has returned a permit at once.
TakePermit(p) == p - 1

\* Faulty preparation: the position of the previous transfer is kept.
PrepareBarKeepPosition(bar, len) == [bar EXCEPT !.length = len]

\* pb.set_length(len); pb.set_position(0)
PrepareBar(bar, len) == [bar EXCEPT !.length = len, !.position = 0]

\* pb.set_message(m)
SetMessage(bar, m) == [bar EXCEPT !.message = m]

\* pb.inc(n)
Inc(bar, n) == [bar EXCEPT !.position = @ + n]

\* The bytes the File takes when write_all has n bytes left for it: all of
\* them, or as many as its buffer holds.
Taken(n) == IF n < MaxBuf THEN n ELSE MaxBuf

\* One poll of file.write_all(&bytes) with n bytes left, on the File f with
\* no write in flight: Taken(n) bytes are copied into the File's buffer and
\* their write is handed to a blocking thread.  write_all returns Ok(()) at
\* once when these were the last bytes, otherwise it waits for that write.
WriteAll(f, n) == [f EXCEPT !.buffered = Taken(n)]

\* The blocking thread writes the buffer of the File f: k of the buffered
\* bytes reach the file, and the write has failed when k is not all of them.
\* The result stays with the File until its next write is polled.
DiskWrite(f, k) ==
    [f EXCEPT !.size = @ + k, !.buffered = 0, !.failed = (k < f.buffered)]

\* The File f once poll_write has taken the error of its last write.
TakeError(f) == [f EXCEPT !.failed = FALSE]

\* ProgressBar::finish(): the position jumps to the length and the bar is
\* finished.
Finish(bar) == [bar EXCEPT !.position = bar.length, !.finished = TRUE]

\* Lines 38-63, entered when sema.acquire() has returned the permit of task t
\* (permits p1, ownership h1) and holding no .await: try_lock the first free
\* bar, read the content length of the response r, prepare the bar and issue
\* the open of the destination pth, which a blocking thread will perform.
\* tpo and tpf give the other futures' states for the case that t goes on
\* and for the case that it returns Err.
Admit(t, r, pth, tpo, tpf, p1, h1) ==
    LET pb == FirstFree(bars)
    IN  /\ acquired' = [acquired EXCEPT ![t] = @ + 1]
        /\ IF pb = None
           THEN /\ Fail(t, "NoProgressBar", p1, bars, h1, tpf)
                /\ Forget(t, "Err", tpf)
           ELSE LET i == Unwrap(pb)
                    b1 == LockBar(bars, i, t)
                    cl == ContentLength(r)
                IN  IF cl = None
                    THEN /\ Fail(t, "LengthUnknown", p1, b1, h1, tpf)
                         /\ Forget(t, "Err", tpf)
                    ELSE LET b2 == [b1 EXCEPT ![i] = PrepareBar(@, Unwrap(cl))]
                             fname == FileName(pth)
                         IN  IF fname = None
                             THEN /\ Fail(t, "NoFileName", p1, b2, h1, tpf)
                                  /\ Forget(t, "Err", tpf)
                             ELSE /\ bars' = [b2 EXCEPT ![i] = SetMessage(@, Unwrap(fname))]
                                  /\ permits' = p1
                                  /\ held' = h1
                                  /\ slot' = [slot EXCEPT ![t] = pb]
                                  /\ tpc' = [tpo EXCEPT ![t] = "Opening"]
                                  /\ resp' = [resp EXCEPT ![t] = r]
                                  /\ UNCHANGED <<mainPc, runError, result, waiters,
                                                 path, chunk, orphans>>

\* download_with_sema is entered and sema.acquire() is polled (line 37): with
\* a permit available the task goes straight on, otherwise it queues.
Enter(t, r, pth, tpo, tpf) ==
    IF PermitAvailable(permits)
    THEN Admit(t, r, pth, tpo, tpf, TakePermit(permits), [held EXCEPT ![t] = TRUE])
    ELSE /\ tpc' = [tpo EXCEPT ![t] = "Waiting"]
         /\ waiters' = Append(waiters, t)
         /\ resp' = [resp EXCEPT ![t] = r]
         /\ UNCHANGED <<permits, bars, held, slot, result, mainPc, runError, acquired,
                        path, chunk, orphans>>

\* ------------------------------------------------------------ main, 157-176
\* fs::create_dir_all(&outdir) succeeds; the n_jobs bars and the semaphore of
\* n_jobs permits are built.
Setup ==
    /\ mainPc = "Starting"
    /\ mainPc' = "FetchingIndex"
    /\ bars' = [i \in 1..jobs |-> NewBar]
    /\ permits' = SemaNew(jobs)
    /\ UNCHANGED <<jobs, latestOnly, orphans, runError, nItems, waiters, tpc, resp, path, held,
                   slot, chunk, result, acquired, files>>

\* fs::create_dir_all(&outdir) fails: main returns the error before the bars
\* and the semaphore exist.
CreateDirErr ==
    /\ mainPc = "Starting"
    /\ MainFail("CreateDirError")
    /\ UNCHANGED <<jobs, latestOnly, orphans, nItems, permits, waiters, bars, resp, path, held,
                   slot, chunk, result, acquired, files>>

\* ------------------------------------------------------------ main, 178-199
\* reqwest::get(MFP_URL) answers with a success status.
FetchIndexOk ==
    /\ mainPc = "FetchingIndex"
    /\ mainPc' = "ScrapingLatest"
    /\ UNCHANGED <<jobs, latestOnly, orphans, runError, nItems, permits, waiters, bars, tpc, resp,
                   path, held, slot, chunk, result, acquired, files>>

\* reqwest::get(MFP_URL) fails: main returns the error.
FetchIndexErr ==
    /\ mainPc = "FetchingIndex"
    /\ MainFail("IndexFetchError")
    /\ UNCHANGED <<jobs, latestOnly, orphans, nItems, permits, waiters, bars, resp, path, held,
                   slot, chunk, result, acquired, files>>

\* The index answers with a non-success status: main panics.
FetchIndexBadStatus ==
    /\ mainPc = "FetchingIndex"
    /\ MainFail("IndexStatusPanic")
    /\ UNCHANGED <<jobs, latestOnly, orphans, nItems, permits, waiters, bars, resp, path, held,
                   slot, chunk, result, acquired, files>>

\* scrape_episode_file_url(MFP_URL) finds the latest file URL, whose last
\* segment is f.
ScrapeLatestOk(f) ==
    /\ mainPc = "ScrapingLatest"
    /\ mainPc' = "RequestingLatest"
    /\ path' = [path EXCEPT ![Latest] = PathJoin(OutDir, f)]
    /\ UNCHANGED <<jobs, latestOnly, orphans, runError, nItems, permits, waiters, bars, tpc, resp,
                   held, slot, chunk, result, acquired, files>>

ScrapeLatestErr ==
    /\ mainPc = "ScrapingLatest"
    /\ MainFail("ScrapeError")
    /\ UNCHANGED <<jobs, latestOnly, orphans, nItems, permits, waiters, bars, resp, path, held,
                   slot, chunk, result, acquired, files>>

\* reqwest::get(&latest_url) answers; latest_fut is created, not yet polled.
RequestLatestOk(cl) ==
    /\ mainPc = "RequestingLatest"
    /\ mainPc' = "ReadingBody"
    /\ resp' = [resp EXCEPT ![Latest] = NewResponse(cl)]
    /\ tpc' = [tpc EXCEPT ![Latest] = "Created"]
    /\ UNCHANGED <<jobs, latestOnly, orphans, runError, nItems, permits, waiters, bars, path,
                   held, slot, chunk, result, acquired, files>>

RequestLatestErr ==
    /\ mainPc = "RequestingLatest"
    /\ MainFail("RequestError")
    /\ UNCHANGED <<jobs, latestOnly, orphans, nItems, permits, waiters, bars, resp, path, held,
                   slot, chunk, result, acquired, files>>

\* resp.text() yields the index body, which lists k episodes: one future per
\* episode is built (lines 201-220), none is polled yet.
ReadBodyOk(k) ==
    /\ mainPc = "ReadingBody"
    /\ mainPc' = "Joining"
    /\ nItems' = k
    /\ tpc' = [t \in Tasks |-> IF t <= k THEN "Created" ELSE "Absent"]
    /\ UNCHANGED <<jobs, latestOnly, orphans, runError, permits, waiters, bars, resp, path,
                   held, slot, chunk, result, acquired, files>>

\* The outer try_join polls cleanup_after_download_fut for the first time
\* (lines 229-234, 244): latest_fut enters download_with_sema, and unless it
\* returns Err at once or --latest is set, every episode future sends its
\* subpage request.
StartJoin ==
    /\ mainPc = "Joining" /\ tpc[Latest] = "Created"
    /\ Enter(Latest, resp[Latest], path[Latest],
             FirstPoll(tpc, nItems, latestOnly), tpc)
    /\ UNCHANGED <<jobs, latestOnly, nItems, files>>

\* The first poll of the join reaches an episode u whose element has no href
\* (line 206): latest_fut has entered download_with_sema and holds its permit
\* and bar, the episodes before u have sent their subpage requests, and the
\* unwrap panics; the unwinding drops every future.
StartJoinPanic(u) ==
    /\ mainPc = "Joining" /\ tpc[Latest] = "Created"
    /\ ~latestOnly
    /\ u \in 1..nItems
    /\ PermitAvailable(permits)
    /\ FirstFree(bars) # None
    /\ ContentLength(resp[Latest]) # None
    /\ FileName(path[Latest]) # None
    /\ LET i == Unwrap(FirstFree(bars))
           len == Unwrap(ContentLength(resp[Latest]))
           name == Unwrap(FileName(path[Latest]))
           b == [LockBar(bars, i, Latest) EXCEPT
                    ![i] = SetMessage(PrepareBar(@, len), name)]
           tp == [FirstPoll(tpc, u - 1, latestOnly) EXCEPT ![Latest] = "Opening"]
       IN  Unwind(u, "HrefPanic", TakePermit(permits), b,
                  [held EXCEPT ![Latest] = TRUE], tp)
    /\ acquired' = [acquired EXCEPT ![Latest] = @ + 1]
    /\ UNCHANGED <<jobs, latestOnly, nItems, files>>

ReadBodyErr ==
    /\ mainPc = "ReadingBody"
    /\ MainFail("IndexBodyError")
    /\ UNCHANGED <<jobs, latestOnly, orphans, nItems, permits, waiters, bars, resp, path, held,
                   slot, chunk, result, acquired, files>>

\* ------------------------------------------------------------ main, 205-212
\* scrape_episode_file_url(ep_url) finds the file URL of episode t.
ScrapeItemOk(t, f) ==
    /\ Running(t) /\ tpc[t] = "Scraping"
    /\ tpc' = [tpc EXCEPT ![t] = "Requesting"]
    /\ path' = [path EXCEPT ![t] = PathJoin(OutDir, f)]
    /\ UNCHANGED <<jobs, latestOnly, orphans, mainPc, runError, nItems, permits, waiters, bars,
                   resp, held, slot, chunk, result, acquired, files>>

ScrapeItemErr(t) ==
    /\ Running(t) /\ tpc[t] = "Scraping"
    /\ Fail(t, "ScrapeError", permits, bars, held, tpc)
    /\ Forget(t, "Err", tpc)
    /\ UNCHANGED <<jobs, latestOnly, nItems, acquired, files>>

\* reqwest::get(&file_url) answers and download_with_sema is entered.
RequestItemOk(t, cl) ==
    /\ Running(t) /\ tpc[t] = "Requesting"
    /\ Enter(t, NewResponse(cl), path[t], tpc, tpc)
    /\ UNCHANGED <<jobs, latestOnly, nItems, files>>

RequestItemErr(t) ==
    /\ Running(t) /\ tpc[t] = "Requesting"
    /\ Fail(t, "RequestError", permits, bars, held, tpc)
    /\ Forget(t, "Err", tpc)
    /\ UNCHANGED <<jobs, latestOnly, nItems, acquired, files>>

\* A task that was handed a permit while it waited resumes from
\* sema.acquire().
Resume(t) ==
    /\ Running(t) /\ tpc[t] = "Granted"
    /\ Admit(t, resp[t], path[t], tpc, tpc, permits, held)
    /\ UNCHANGED <<jobs, latestOnly, nItems, files>>

\* The blocking thread performs the open that the live task t has issued
\* (OpenOptions create_new(true).write(true).open(&path), lines 59-63): it
\* creates the file, finds it there, or fails for another reason; the task
\* is woken and takes the result when it is polled.
IoOpen(t, fails) ==
    /\ tpc[t] = "Opening"
    /\ IF fails
       THEN /\ tpc' = [tpc EXCEPT ![t] = "OpenedErr"]
            /\ files' = files
       ELSE IF CreateNew(files, path[t]) = None
       THEN /\ tpc' = [tpc EXCEPT ![t] = "OpenedExists"]
            /\ files' = files
       ELSE /\ tpc' = [tpc EXCEPT ![t] = "OpenedNew"]
            /\ files' = Unwrap(CreateNew(files, path[t]))
    /\ UNCHANGED <<jobs, latestOnly, orphans, mainPc, runError, nItems, permits, waiters,
                   bars, resp, path, held, slot, chunk, result, acquired>>

\* The blocking thread performs, or fails to perform, an open whose future
\* was dropped: the file is created if it was not there, and nobody is left
\* to write to it.
IoOpenOrphan(p, fails) ==
    /\ p \in orphans
    /\ orphans' = orphans \ {p}
    /\ files' = IF fails \/ CreateNew(files, p) = None
                THEN files ELSE Unwrap(CreateNew(files, p))
    /\ UNCHANGED <<jobs, latestOnly, mainPc, runError, nItems, permits, waiters, bars,
                   tpc, resp, path, held, slot, chunk, result, acquired>>

\* The open has created the file: the task takes the File and polls the body
\* stream (lines 64, 75-77).
OpenCreated(t) ==
    /\ Running(t) /\ tpc[t] = "OpenedNew"
    /\ tpc' = [tpc EXCEPT ![t] = "Streaming"]
    /\ UNCHANGED <<jobs, latestOnly, orphans, mainPc, runError, nItems, permits, waiters,
                   bars, resp, path, held, slot, chunk, result, acquired, files>>

\* The open has failed with AlreadyExists: the bar goes "Idle", Ok(()) is
\* returned.
OpenExists(t) ==
    /\ Running(t) /\ tpc[t] = "OpenedExists"
    /\ Succeed(t, "Skipped",
               [bars EXCEPT ![Unwrap(slot[t])] = SetMessage(@, "Idle")])
    /\ UNCHANGED <<jobs, latestOnly, nItems, acquired, files>>

\* The open has failed with an error other than AlreadyExists, whether or not
\* the destination exists: the error is returned.
OpenErr(t) ==
    /\ Running(t) /\ tpc[t] = "OpenedErr"
    /\ Fail(t, "OpenError", permits, bars, held, tpc)
    /\ Forget(t, "Err", tpc)
    /\ UNCHANGED <<jobs, latestOnly, nItems, acquired, files>>

\* stream.next() yields Some(Ok(bytes)) with c bytes and write_all is polled
\* (lines 75-80).  With the previous write still in flight write_all waits
\* for it; with the previous write failed its error is returned; otherwise
\* the File takes the bytes its buffer holds: when that is the whole chunk
\* write_all returns and pb.inc follows without an .await, when it is not
\* write_all waits for the write of the first part.
StreamChunk(t, c) ==
    /\ Running(t) /\ tpc[t] = "Streaming"
    /\ c \in 1..(Unwrap(resp[t].content_length) - resp[t].delivered)
    /\ LET f == Unwrap(files[path[t]])
           r == [resp EXCEPT ![t].delivered = @ + c]
       IN  IF f.buffered > 0
           THEN /\ chunk' = [chunk EXCEPT ![t] = NewChunk(c, c)]
                /\ tpc' = [tpc EXCEPT ![t] = "Writing"]
                /\ resp' = r
                /\ UNCHANGED <<mainPc, runError, permits, waiters, bars, held,
                               slot, result, files, path, orphans>>
           ELSE IF f.failed
           THEN /\ files' = [files EXCEPT ![path[t]] = Some(TakeError(f))]
                /\ Fail(t, "WriteError", permits, bars, held, tpc)
                /\ Forget(t, "Err", tpc)
           ELSE /\ files' = [files EXCEPT ![path[t]] = Some(WriteAll(f, c))]
                /\ resp' = r
                /\ IF Taken(c) = c
                   THEN /\ bars' = [bars EXCEPT ![Unwrap(slot[t])] = Inc(@, c)]
                        /\ UNCHANGED <<tpc, chunk>>
                   ELSE /\ chunk' = [chunk EXCEPT ![t] = NewChunk(c, c - Taken(c))]
                        /\ tpc' = [tpc EXCEPT ![t] = "Writing"]
                        /\ UNCHANGED bars
                /\ UNCHANGED <<mainPc, runError, permits, waiters, held, slot,
                               result, path, orphans>>
    /\ UNCHANGED <<jobs, latestOnly, nItems, acquired>>

\* stream.next() yields Some(Err(e)): `res?` returns it.
StreamErr(t) ==
    /\ Running(t) /\ tpc[t] = "Streaming"
    /\ Fail(t, "StreamError", permits, bars, held, tpc)
    /\ Forget(t, "Err", tpc)
    /\ UNCHANGED <<jobs, latestOnly, nItems, acquired, files>>

\* stream.next() yields None: the loop ends and Ok(()) is returned.
StreamEnd(t) ==
    /\ Running(t) /\ tpc[t] = "Streaming"
    /\ resp[t].delivered = Unwrap(resp[t].content_length)
    /\ Succeed(t, "Completed", bars)
    /\ UNCHANGED <<jobs, latestOnly, nItems, acquired, files>>

\* The write that write_all waited for has succeeded: the File takes the
\* next bytes of the chunk; when these are its last, write_all returns and
\* pb.inc(bytes.len()) follows without an .await, otherwise write_all waits
\* again.
WriteOk(t) ==
    /\ Running(t) /\ tpc[t] = "Writing"
    /\ Unwrap(files[path[t]]).buffered = 0
    /\ ~Unwrap(files[path[t]]).failed
    /\ files' = [files EXCEPT ![path[t]] = Some(WriteAll(Unwrap(@), chunk[t].rest))]
    /\ IF Taken(chunk[t].rest) = chunk[t].rest
       THEN /\ bars' = [bars EXCEPT ![Unwrap(slot[t])] = Inc(@, chunk[t].len)]
            /\ chunk' = [chunk EXCEPT ![t] = NoChunk]
            /\ tpc' = [tpc EXCEPT ![t] = "Streaming"]
       ELSE /\ chunk' = [chunk EXCEPT ![t].rest = @ - Taken(@)]
            /\ UNCHANGED <<bars, tpc>>
    /\ UNCHANGED <<jobs, latestOnly, orphans, mainPc, runError, nItems, permits, waiters,
                   resp, path, held, slot, result, acquired>>

\* The write that write_all waited for has failed: `?` returns its error; the
\* bytes write_all still holds are not written and the chunk is not counted.
WriteErr(t) ==
    /\ Running(t) /\ tpc[t] = "Writing"
    /\ Unwrap(files[path[t]]).buffered = 0
    /\ Unwrap(files[path[t]]).failed
    /\ files' = [files EXCEPT ![path[t]] = Some(TakeError(Unwrap(@)))]
    /\ Fail(t, "WriteError", permits, bars, held, tpc)
    /\ Forget(t, "Err", tpc)
    /\ UNCHANGED <<jobs, latestOnly, nItems, acquired>>

\* The blocking thread performs the write in flight on the file at p, of
\* which k bytes reach the disk.  It runs whether or not the future that
\* issued the write still exists: the File is never flushed, so a transfer
\* can return before its last bytes are written and never sees their error.
IoWrite(p, k) ==
    /\ files[p] # None
    /\ Unwrap(files[p]).buffered > 0
    /\ k \in 0..Unwrap(files[p]).buffered
    /\ files' = [files EXCEPT ![p] = Some(DiskWrite(Unwrap(@), k))]
    /\ UNCHANGED <<jobs, latestOnly, orphans, mainPc, runError, nItems, permits, waiters, bars,
                   tpc, resp, path, held, slot, chunk, result, acquired>>

\* ------------------------------------------------------------ main, 236-246
\* One turn of `for mutex in bars.iter() { mutex.lock().await.finish(); }`
FinishBar(i) ==
    /\ mainPc = "Finishing"
    /\ i \in Bars
    /\ ~bars[i].finished
    /\ \A j \in Bars : j < i => bars[j].finished
    /\ bars[i].holder = None
    /\ bars' = [bars EXCEPT ![i] = Finish(@)]
    /\ UNCHANGED <<jobs, latestOnly, orphans, mainPc, runError, nItems, permits, waiters, tpc,
                   resp, path, held, slot, chunk, result, acquired,
                   files>>

\* Every bar is finished: mpb.join_and_clear() returns, the outer try_join
\* resolves Ok and main returns Ok(()).
BarJoin ==
    /\ mainPc = "Finishing"
    /\ \A i \in Bars : bars[i].finished
    /\ mainPc' = "Done"
    /\ tpc' = [u \in Tasks |-> IF tpc[u] = "Created" THEN "NeverPolled" ELSE tpc[u]]
    /\ UNCHANGED <<jobs, latestOnly, orphans, runError, nItems, permits, waiters, bars, resp,
                   path, held, slot, chunk, result, acquired, files>>

\* mpb.join_and_clear() or its blocking task fails (line 225): the outer
\* try_join returns the error and drops cleanup_after_download_fut with every
\* download future in it.
BarJoinErr ==
    /\ \/ mainPc = "Joining" /\ tpc[Latest] # "Created"
       \/ mainPc = "Finishing"
    /\ \E dropped \in {{u \in Tasks : tpc[u] \in Live}} :
           /\ tpc' = [u \in Tasks |->
                       IF tpc[u] = "Created" THEN "NeverPolled"
                       ELSE IF tpc[u] \in Live THEN "Dropped"
                       ELSE tpc[u]]
           /\ bars' = ReleaseBars(bars, dropped)
           /\ permits' = ReleasePermits(permits, held, dropped)
           /\ held' = [u \in Tasks |-> IF u \in dropped THEN FALSE ELSE held[u]]
           /\ slot' = [u \in Tasks |-> IF u \in dropped THEN None ELSE slot[u]]
    /\ waiters' = <<>>
    /\ mainPc' = "Failed"
    /\ runError' = "BarJoinError"
    /\ resp' = [u \in Tasks |-> IF tpc[u] \in Live THEN NoResponse ELSE resp[u]]
    /\ path' = [u \in Tasks |-> IF tpc[u] \in Live THEN <<>> ELSE path[u]]
    /\ chunk' = [u \in Tasks |-> IF tpc[u] \in Live THEN NoChunk ELSE chunk[u]]
    /\ orphans' = orphans \cup Orphaned(Tasks, tpc)
    /\ UNCHANGED <<jobs, latestOnly, nItems, result, acquired, files>>

Next ==
    \/ Setup
    \/ CreateDirErr
    \/ FetchIndexOk
    \/ FetchIndexErr
    \/ FetchIndexBadStatus
    \/ \E f \in LatestNames : ScrapeLatestOk(f)
    \/ ScrapeLatestErr
    \/ \E cl \in {None} \cup {Some(n) : n \in Lengths} : RequestLatestOk(cl)
    \/ RequestLatestErr
    \/ \E k \in 0..MaxItems : ReadBodyOk(k)
    \/ ReadBodyErr
    \/ \E t \in Tasks : \E f \in ItemNames(t) : ScrapeItemOk(t, f)
    \/ \E t \in Tasks : ScrapeItemErr(t)
    \/ \E t \in Tasks, cl \in {None} \cup {Some(n) : n \in Lengths} : RequestItemOk(t, cl)
    \/ \E t \in Tasks : RequestItemErr(t)
    \/ StartJoin
    \/ \E u \in Tasks : StartJoinPanic(u)
    \/ \E t \in Tasks : Resume(t)
    \/ \E t \in Tasks, fails \in BOOLEAN : IoOpen(t, fails)
    \/ \E p \in Paths, fails \in BOOLEAN : IoOpenOrphan(p, fails)
    \/ \E t \in Tasks : OpenCreated(t)
    \/ \E t \in Tasks : OpenExists(t)
    \/ \E t \in Tasks : OpenErr(t)
    \/ \E t \in Tasks, c \in 1..MaxLen : StreamChunk(t, c)
    \/ \E t \in Tasks : StreamErr(t)
    \/ \E t \in Tasks : StreamEnd(t)
    \/ \E t \in Tasks : WriteOk(t)
    \/ \E t \in Tasks : WriteErr(t)
    \/ \E p \in Paths, k \in 0..MaxLen : IoWrite(p, k)
    \/ \E i \in 1..MaxJobs : FinishBar(i)
    \/ BarJoin
    \/ BarJoinErr

Spec == Init /\ [][Next]_vars

\* ------------------------------------------------------------ fair runs
\* The steps of a run in which every request is answered, every response
\* reports its length, and no stream, open or write fails.
NextOk ==
    \/ Setup
    \/ FetchIndexOk
    \/ \E f \in LatestNames : ScrapeLatestOk(f)
    \/ \E n \in Lengths : RequestLatestOk(Some(n))
    \/ \E k \in 0..MaxItems : ReadBodyOk(k)
    \/ StartJoin
    \/ \E t \in Tasks : \E f \in ItemNames(t) : ScrapeItemOk(t, f)
    \/ \E t \in Tasks, n \in Lengths : RequestItemOk(t, Some(n))
    \/ \E t \in Tasks : Resume(t)
    \/ \E t \in Tasks : IoOpen(t, FALSE)
    \/ \E t \in Tasks : OpenCreated(t)
    \/ \E t \in Tasks : OpenExists(t)
    \/ \E t \in Tasks, c \in 1..MaxLen : StreamChunk(t, c)
    \/ \E t \in Tasks : StreamEnd(t)
    \/ \E t \in Tasks : WriteOk(t)
    \/ \E p \in Paths, k \in 1..MaxLen :
           files[p] # None /\ k = Unwrap(files[p]).buffered /\ IoWrite(p, k)
    \/ \E i \in 1..MaxJobs : FinishBar(i)
    \/ BarJoin

\* Every pending operation eventually completes and the executor keeps
\* polling the futures that were woken: a run does not stop while a step is
\* possible.
FairSpec == Init /\ [][NextOk]_vars /\ WF_vars(NextOk)

\* ------------------------------------------------------------ properties
Returned == {"Ok", "Err"}
Settled == {"Ok", "Err", "Dropped", "NeverPolled"}

\* The bars and the semaphore exist (lines 163-176 have run).
Built == bars # <<>>

InTransferCount == Cardinality({t \in Tasks : tpc[t] \in InTransfer})
GrantedCount == Cardinality({t \in Tasks : tpc[t] = "Granted"})
BusyCount == Cardinality({i \in Bars : bars[i].holder # None})

\* C1: the number of download tasks between obtaining a permit and returning
\* from download_with_sema never exceeds n_jobs, and the gate can admit a task
\* (a permit is available) only while fewer than n_jobs tasks hold one.
C1_TransfersCapped ==
    /\ InTransferCount <= jobs
    /\ PermitAvailable(permits) => InTransferCount + GrantedCount < jobs

\* C1 case: a task has returned Err after its transfer while the join goes
\* on, and the pool of two permits is full again.
C1_Witness ==
    /\ mainPc = "Joining"
    /\ jobs >= 2
    /\ InTransferCount = jobs
    /\ permits = 0
    /\ \E t \in Tasks : tpc[t] = "Err" /\ acquired[t] = 1

\* C2 as stated: in every state of the download phase the number of locked
\* bars equals n_jobs minus the available permits.
C2_LockStepAlways == Built => BusyCount = jobs - permits

\* C2 amended: once bars and semaphore exist, the number of locked bars
\* equals n_jobs minus the available permits minus the permits already handed
\* to waiting tasks that have not yet resumed from sema.acquire() (so the two
\* agree whenever no such task exists); a bar is locked only by a task that
\* holds a permit, and is unlocked before that permit is returned.
C2_LockStep ==
    Built =>
        /\ Bars = 1..jobs
        /\ BusyCount = jobs - permits - GrantedCount
        /\ BusyCount <= jobs
        /\ \A i \in Bars : bars[i].holder # None =>
               /\ held[Unwrap(bars[i].holder)]
               /\ slot[Unwrap(bars[i].holder)] = Some(i)

\* C2 case: a task has returned Err, releasing its bar and its permit, the
\* join goes on, and the permit was handed to a waiting task that has not
\* resumed yet.
C2_Witness ==
    /\ mainPc = "Joining"
    /\ \E t \in Tasks : tpc[t] = "Err" /\ acquired[t] = 1
    /\ \E t \in Tasks : tpc[t] = "Granted"
    /\ BusyCount = jobs - 1 /\ permits = 0

\* C3: once download_with_sema has returned, with Ok or with Err, the task
\* holds neither bar nor permit, and the permits out of the gate are exactly
\* those of the tasks still past sema.acquire() or handed one (each acquire
\* was released exactly once).
C3_ReleaseOnEveryExit ==
    \A t \in Tasks : tpc[t] \in Returned =>
        /\ ~held[t]
        /\ slot[t] = None
        /\ \A i \in Bars : bars[i].holder # Some(t)
        /\ permits = jobs - InTransferCount - GrantedCount

\* C3 case: one task returned Completed and one Err after it had acquired a
\* permit and a bar, while a third task is still transferring.
C3_Witness ==
    \E t, u, v \in Tasks :
        /\ result[t] = "Completed"
        /\ tpc[v] = "Err" /\ result[v] = "WriteError"
        /\ acquired[t] = 1 /\ acquired[v] = 1
        /\ tpc[u] \in InTransfer

\* C4: no bar is owned by two tasks, and a task inside the transfer section
\* owns exactly one bar, whose mutex names it as the holder.
C4_ExclusiveSlots ==
    /\ \A t, u \in Tasks : (t # u /\ slot[t] # None) => slot[t] # slot[u]
    /\ \A t \in Tasks : tpc[t] \in InTransfer =>
           /\ held[t]
           /\ Cardinality(slot[t]) = 1
           /\ slot[t] \subseteq Bars
           /\ bars[Unwrap(slot[t])].holder = Some(t)

\* C4 case: two tasks transfer at once, each on its own bar, after a third
\* task has returned Err and given its bar back.
C4_Witness ==
    \E t, u, v \in Tasks :
        /\ t # u
        /\ tpc[t] = "Streaming" /\ tpc[u] = "Streaming"
        /\ slot[t] # None /\ slot[u] # None /\ slot[t] # slot[u]
        /\ tpc[v] = "Err" /\ acquired[v] = 1

\* C5: without --latest, the run is past the join (finishing the bars, or
\* done) only if each of the nItems + 1 tasks returned Completed or Skipped;
\* a run in which a task has returned Err is still joining or has failed,
\* and it has failed, with the error of that task, as soon as the task is
\* the latest one or a listed episode all of whose predecessors in the list
\* have returned Ok (the join hands the episodes' results on in list order).
C5_FailFast ==
    ~latestOnly =>
        /\ mainPc \in {"Finishing", "Done"} =>
               \A t \in 0..nItems :
                   tpc[t] = "Ok" /\ result[t] \in {"Completed", "Skipped"}
        /\ \A t \in Tasks : tpc[t] = "Err" => mainPc \in {"Joining", "Failed"}
        /\ tpc[Latest] = "Err" =>
               mainPc = "Failed" /\ runError = result[Latest]
        /\ \A t \in 1..nItems :
               (tpc[t] = "Err" /\ \A u \in 1..(t - 1) : tpc[u] = "Ok") =>
                   mainPc = "Failed" /\ runError = result[t]
        /\ mainPc = "Failed" => runError # ""

\* C5 case: the latest file was completed and both listed episodes returned
\* Err, the second before the first; the run has failed with the error of
\* the first.
C5_Witness ==
    /\ ~latestOnly
    /\ mainPc = "Failed"
    /\ result[Latest] = "Completed"
    /\ tpc[1] = "Err" /\ tpc[2] = "Err"
    /\ runError = result[1] /\ result[1] # result[2]

\* C6: a task that enters download_with_sema while a file is at its
\* destination does not fail for want of a content length and changes no
\* file, and a task returns LengthUnknown only if no file is at its
\* destination.
C6_LengthOnlyIfAbsent ==
    [][\A t \in Tasks :
        /\ (acquired'[t] > acquired[t] /\ files[path[t]] # None) =>
               result'[t] # "LengthUnknown" /\ files' = files
        /\ (result'[t] = "LengthUnknown" /\ result[t] # "LengthUnknown") =>
               files[path[t]] = None
      ]_vars

\* C7: once the join has resolved with an error and dropped the tasks in
\* flight, no task is in flight, none holds a permit or a bar, no bar is
\* locked, all n_jobs permits are available and nobody waits for one.
C7_ReleasedOnAbandon ==
    (mainPc = "Failed" /\ Built) =>
        /\ BusyCount = 0
        /\ permits = jobs
        /\ waiters = <<>>
        /\ \A t \in Tasks : ~held[t] /\ slot[t] = None /\ tpc[t] \notin Live

\* C7 case: the join resolved on the error of the first listed episode and
\* dropped a task that held a permit and a bar; the second episode had
\* returned Err before, while the join went on.
C7_Witness ==
    /\ mainPc = "Failed"
    /\ tpc[1] = "Err" /\ tpc[2] = "Err" /\ runError = result[1]
    /\ \E t \in Tasks : tpc[t] = "Dropped" /\ acquired[t] = 1

\* C8 as stated: without --latest, once the join has polled the future of
\* the latest file, the futures polled are those of the latest file and of
\* each of the nItems listed episodes, nItems + 1 in all, and none obtains a
\* permit more than once.
C8_AllDispatched ==
    (~latestOnly /\ Dispatched(Latest)) =>
        /\ {t \in Tasks : Dispatched(t)} = 0..nItems
        /\ \A t \in Tasks : acquired[t] <= 1

\* C8 amended: without --latest, exactly one future is built for the latest
\* file and for each of the nItems listed episodes, and those nItems + 1
\* futures are the ones polled by the join, unless its first poll ends the
\* run: the future of the latest file returns Err before it is suspended
\* once (no episode is polled then), or a listed element carries no link
\* (the panic of line 206; the episodes before it are polled). None obtains
\* a permit more than once, and a future that has returned or was dropped is
\* never run again.
C8_FanOut ==
    /\ [](~latestOnly =>
            /\ mainPc \in {"Joining", "Finishing", "Done"} =>
                   {t \in Tasks : tpc[t] # "Absent"} = 0..nItems
            /\ (mainPc \in {"Joining", "Finishing", "Done"}
                    /\ tpc[Latest] # "Created") =>
                   /\ {t \in Tasks : Dispatched(t)} = 0..nItems
                   /\ Cardinality({t \in Tasks : Dispatched(t)}) = nItems + 1
            /\ \/ {t \in Tasks : Dispatched(t)} = {}
               \/ {t \in Tasks : Dispatched(t)} = 0..nItems
               \/ /\ {t \in Tasks : Dispatched(t)} = {Latest}
                  /\ tpc[Latest] = "Err"
                  /\ mainPc = "Failed"
               \/ /\ runError = "HrefPanic"
                  /\ \E u \in 1..nItems :
                         {t \in Tasks : Dispatched(t)} = 0..(u - 1)
            /\ \A t \in Tasks : acquired[t] <= 1)
    /\ [][\A t \in Tasks : tpc[t] \in Settled => tpc'[t] = tpc[t]]_vars

\* C8 case: over two listed episodes, the latest file and the first episode
\* have returned Ok and the second episode Err; each of the three acquired
\* once and none was run again.
C8_Witness ==
    /\ ~latestOnly
    /\ nItems = 2
    /\ mainPc = "Failed"
    /\ tpc[Latest] = "Ok" /\ tpc[1] = "Ok" /\ tpc[2] = "Err"
    /\ \A t \in 0..nItems : acquired[t] = 1

\* The files this run has created.
CreatedCount ==
    Cardinality({p \in Paths : files[p] # None /\ Unwrap(files[p]).opened > 0})

\* What C9 says of the listed episodes under --latest: none is polled, none
\* has its file URL resolved, none holds or ever held a permit or a bar, and
\* the only file the run may create is the latest one.
OnlyLatestRuns ==
    /\ \A t \in Tasks \ {Latest} :
           /\ ~Dispatched(t)
           /\ path[t] = <<>>
           /\ resp[t] = NoResponse
           /\ acquired[t] = 0
           /\ ~held[t]
           /\ slot[t] = None
    /\ CreatedCount <= acquired[Latest]

\* C9 as stated: under --latest only the latest task runs, and the run
\* succeeds or fails exactly as latest_fut does.
C9_ResultIsLatest ==
    latestOnly =>
        /\ OnlyLatestRuns
        /\ tpc[Latest] = "Ok" => mainPc # "Failed" /\ runError = ""
        /\ tpc[Latest] = "Err" =>
               mainPc = "Failed" /\ runError = result[Latest]

\* C9 amended: under --latest only the latest task runs, and the run result
\* is the result of the latest task unless joining the progress display
\* fails, in which case the run fails with that error: the run gets past the
\* join only if latest_fut returned Ok, an Err of latest_fut is the error of
\* the run, and after an Ok of latest_fut the run fails with no other error
\* than that of the display.
C9_LatestOnly ==
    latestOnly =>
        /\ OnlyLatestRuns
        /\ mainPc \in {"Finishing", "Done"} => tpc[Latest] = "Ok"
        /\ tpc[Latest] = "Ok" =>
               \/ mainPc \in {"Finishing", "Done"} /\ runError = ""
               \/ mainPc = "Failed" /\ runError = "BarJoinError"
        /\ tpc[Latest] = "Err" =>
               mainPc = "Failed" /\ runError = result[Latest]

\* C9 case: the index lists episodes, and the run is done with only the
\* latest file downloaded.
C9_Witness ==
    /\ latestOnly
    /\ nItems >= 1
    /\ mainPc = "Done"
    /\ result[Latest] = "Completed"
    /\ CreatedCount = 1

\* C10: in the step in which a transfer returns Completed, the position and
\* the length of its bar equal the content length of its response; and once
\* the run is done, every transfer that wrote a file having returned
\* Completed, and no write is pending any more, the size of every file the
\* run created is the length its response reported.
C10_CompletedRoundTrip ==
    /\ []((mainPc = "Done"
              /\ \A p \in Paths :
                     files[p] # None => Unwrap(files[p]).buffered = 0) =>
             \A p \in Paths :
                 (files[p] # None /\ Unwrap(files[p]).opened = 1) =>
                     Unwrap(files[p]).size \in Lengths)
    /\ [][\A t \in Tasks :
            (result'[t] = "Completed" /\ result[t] # "Completed") =>
                LET len == Unwrap(resp[t].content_length)
                    i == Unwrap(slot[t])
                IN  bars'[i].position = len /\ bars'[i].length = len
         ]_vars

\* C11: a task that obtains its permit with a response that carries no
\* Content-Length returns Err(LengthUnknown) in that very step, and only a
\* response with a known length lets a task go on to open its destination;
\* in the step that returns LengthUnknown no byte of the body was taken, no
\* file is created or changed, the task locks no bar and holds neither bar
\* nor permit afterwards, and its permit is back in the semaphore or in the
\* hands of the next waiter.
C11_LengthUnknownClean ==
    [][\A t \in Tasks :
        /\ (acquired'[t] > acquired[t] /\ tpc[t] # "Requesting"
                /\ resp[t].content_length = None /\ runError' # "HrefPanic") =>
               result'[t] = "LengthUnknown"
        /\ (acquired'[t] > acquired[t] /\ tpc'[t] = "Opening") =>
               resp'[t].content_length # None
        /\ (acquired'[t] > acquired[t] /\ runError' # "HrefPanic") =>
               \/ tpc'[t] = "Opening"
               \/ tpc'[t] = "Err" /\ result'[t] = "LengthUnknown"
        /\ (result'[t] = "LengthUnknown" /\ result[t] # "LengthUnknown") =>
               /\ acquired'[t] > acquired[t]
               /\ tpc'[t] = "Err"
               /\ resp[t].delivered = 0
               /\ files' = files
               /\ ~held'[t]
               /\ slot'[t] = None
               /\ \A i \in Bars : bars'[i].holder # Some(t)
               /\ permits' = jobs - Cardinality({u \in Tasks : held'[u]})
      ]_vars

\* C11 case: no file exists, a listed episode has returned LengthUnknown
\* after obtaining its permit, and the join goes on with another task in
\* its transfer.
C11_Witness ==
    /\ mainPc = "Joining"
    /\ \A p \in Paths : files[p] = None
    /\ \E t \in 1..nItems :
           /\ tpc[t] = "Err"
           /\ result[t] = "LengthUnknown"
           /\ acquired[t] = 1
    /\ \E u \in Tasks : tpc[u] \in InTransfer

\* C12: no file is ever removed and no file gets shorter, whichever task
\* fails or is dropped; a transfer that fails while streaming returns the
\* error of the stream or of the write; and no run in which a write failed ends in success, every transfer
\* Completed or Skipped.
C12_PartialFilesKept ==
    /\ [][/\ \A p \in Paths : files[p] # None =>
                 /\ files'[p] # None
                 /\ Unwrap(files'[p]).size >= Unwrap(files[p]).size
          /\ \A t \in Tasks :
                 (tpc[t] \in {"Streaming", "Writing"} /\ tpc'[t] = "Err") =>
                     result'[t] \in {"StreamError", "WriteError"}
         ]_vars
    /\ [](mainPc = "Done" =>
            \A p \in Paths : files[p] # None => ~Unwrap(files[p]).failed)

\* C13: once the index has answered with a non-success status the run has
\* failed and stays as it is: no path was resolved, no response requested,
\* no future built, no permit or bar ever taken, no file created, and no
\* further step is taken.
C13_BadStatusStops ==
    /\ [](runError = "IndexStatusPanic" =>
            /\ mainPc = "Failed"
            /\ nItems = 0
            /\ \A t \in Tasks :
                   /\ tpc[t] = "Absent"
                   /\ path[t] = <<>>
                   /\ resp[t] = NoResponse
                   /\ acquired[t] = 0
                   /\ ~held[t]
                   /\ slot[t] = None
            /\ permits = jobs
            /\ waiters = <<>>
            /\ BusyCount = 0
            /\ CreatedCount = 0)
    /\ [][runError # "IndexStatusPanic"]_vars

\* C13 case: the index answered with a non-success status while a file of
\* an earlier run is in the output directory.
C13_Witness ==
    /\ runError = "IndexStatusPanic"
    /\ mainPc = "Failed"
    /\ \E p \in Paths : files[p] # None

\* C14: while the bars are being finished, and after, every future that was
\* polled has returned Ok, without --latest all nItems + 1 of them, no bar is
\* locked, all n_jobs permits are available and nobody waits; no bar is
\* finished while a future is in flight, a bar is locked or a permit is out;
\* and from then on no future moves, obtains a permit or locks a bar.
C14_FinishAfterSettle ==
    /\ [](mainPc \in {"Finishing", "Done"} =>
            /\ \A t \in Tasks :
                   /\ tpc[t] \in {"Absent", "Created", "NeverPolled", "Ok"}
                   /\ ~held[t]
                   /\ slot[t] = None
            /\ tpc[Latest] = "Ok"
            /\ ~latestOnly => \A t \in 0..nItems : tpc[t] = "Ok"
            /\ BusyCount = 0
            /\ permits = jobs
            /\ waiters = <<>>)
    /\ []((\E i \in Bars : bars[i].finished) =>
            /\ mainPc \in {"Finishing", "Done", "Failed"}
            /\ mainPc = "Failed" => runError = "BarJoinError"
            /\ \A t \in Tasks :
                   tpc[t] \in {"Absent", "Created", "NeverPolled", "Ok"}
            /\ BusyCount = 0
            /\ permits = jobs)
    /\ [][(mainPc \in {"Finishing", "Done"}) =>
            /\ acquired' = acquired
            /\ held' = held
            /\ slot' = slot
            /\ \A i \in Bars : bars'[i].holder = None
            /\ \A t \in Tasks : tpc'[t] # tpc[t] =>
                   tpc[t] = "Created" /\ tpc'[t] = "NeverPolled"]_vars

\* C14 case: without --latest, three transfers are over and the first of
\* two bars is finished, the second not yet.
C14_Witness ==
    /\ ~latestOnly
    /\ mainPc = "Finishing"
    /\ nItems = 2
    /\ jobs = 2
    /\ bars[1].finished /\ ~bars[2].finished
    /\ \A t \in 0..nItems : acquired[t] = 1

\* The futures that are resolving their file: sending the subpage request,
\* scraping the file URL or requesting the file.
Resolving == {t \in Tasks : tpc[t] \in {"Scraping", "Requesting"}}

\* C15: a future that has not entered download_with_sema (not yet polled,
\* fetching its subpage or requesting its file) holds no permit and no bar,
\* never obtained a permit and does not wait for one; a future that waits
\* for a permit, was handed one or is transferring has its destination
\* resolved; the queue of the semaphore holds waiting futures only.
C15_GateOnlyTransfer ==
    /\ \A t \in Tasks : tpc[t] \in {"Created", "Scraping", "Requesting"} =>
           /\ ~held[t]
           /\ slot[t] = None
           /\ acquired[t] = 0
           /\ \A k \in 1..Len(waiters) : waiters[k] # t
           /\ \A i \in Bars : bars[i].holder # Some(t)
    /\ \A t \in Tasks : tpc[t] \in {"Waiting", "Granted"} \cup InTransfer =>
           path[t] \in Paths
    /\ \A k \in 1..Len(waiters) : tpc[waiters[k]] = "Waiting"

\* C15 case: with a single permit, which the latest file holds, two listed
\* episodes are in the resolution phase at once.
C15_Witness ==
    /\ jobs = 1
    /\ tpc[Latest] \in InTransfer
    /\ Cardinality(Resolving) = 2
    /\ \E t \in Resolving : tpc[t] = "Requesting"

\* C16: the bar of a transferring task shows the reported length as its
\* total from before the open until the task returns; its position is 0
\* until write_all has returned for the first chunk, and after every
\* processed chunk it equals the sum of the sizes of the chunks write_all
\* has returned for (the bytes taken from the body less the chunk still
\* inside write_all).  The bytes handed to the file are those plus the part
\* of the current chunk the File has taken; they equal the size of the file
\* plus the bytes still buffered as long as no write has failed, and are
\* more than that once one has.  Within one transfer the position never
\* decreases.
C16_PositionTracksFile ==
    /\ [](\A t \in Tasks : tpc[t] \in InTransfer =>
            LET bar == bars[Unwrap(slot[t])]
            IN  /\ bar.length = Unwrap(resp[t].content_length)
                /\ bar.position <= bar.length
                /\ tpc[t] \notin {"Streaming", "Writing"} => bar.position = 0
                /\ tpc[t] = "Streaming" => chunk[t] = NoChunk
                /\ tpc[t] \in {"Streaming", "Writing"} =>
                       LET f == Unwrap(files[path[t]])
                           handed == bar.position + chunk[t].len - chunk[t].rest
                       IN  /\ bar.position = resp[t].delivered - chunk[t].len
                           /\ f.size + f.buffered <= handed
                           /\ ~f.failed => f.size + f.buffered = handed
                           /\ f.failed => f.size < handed)
    /\ [][\A t \in Tasks : (slot[t] # None /\ slot'[t] = slot[t]) =>
            LET i == Unwrap(slot[t])
            IN  /\ bars'[i].length = bars[i].length
                /\ bars'[i].position >= bars[i].position
                /\ tpc'[t] = tpc[t] =>
                       bars'[i].position =
                           bars[i].position
                               + (resp'[t].delivered - resp[t].delivered)]_vars

\* C16 case: a second transfer on the same bar, which the first left at
\* MaxLen, has processed a chunk of one byte; the bar shows 1, the byte is
\* in the hands of the File.
C16_Witness ==
    \E t, u \in Tasks :
        /\ t # u
        /\ result[u] = "Completed"
        /\ jobs = 1
        /\ tpc[t] = "Streaming"
        /\ bars[1].position = 1
        /\ Unwrap(files[path[t]]).size = 0
        /\ Unwrap(files[path[t]]).buffered = 1

\* C17: no task ever returns 'Could not acquire a lock for a progress bar
\* despite permit': whenever a permit is available or was handed to a
\* waiter, some bar is unlocked, and in every step in which a task obtains
\* its permit the scan finds a free bar, which the task locks unless it
\* returns at once for want of a content length or is dropped in that step.
C17_BarForEveryPermit ==
    /\ [](/\ runError # "NoProgressBar"
          /\ \A t \in Tasks : result[t] # "NoProgressBar"
          /\ (PermitAvailable(permits) \/ GrantedCount > 0) =>
                 FirstFree(bars) # None)
    /\ [][\A t \in Tasks : acquired'[t] > acquired[t] =>
            /\ FirstFree(bars) # None
            /\ \/ slot'[t] = FirstFree(bars)
               \/ result'[t] = "LengthUnknown"
               \/ tpc'[t] = "Dropped" /\ runError' = "HrefPanic"]_vars

\* C17 case: with one bar, a task has returned Err and the join goes on;
\* the waiter that was handed its permit has locked the bar it released.
C17_Witness ==
    /\ jobs = 1
    /\ mainPc = "Joining"
    /\ \E t, u \in Tasks :
           /\ tpc[t] = "Opening" /\ slot[t] = Some(1)
           /\ tpc[u] = "Err" /\ acquired[u] = 1

\* The tasks that hold the File of their destination.
Writers(p) ==
    {t \in Tasks : tpc[t] \in {"OpenedNew", "Streaming", "Writing"} /\ path[t] = p}

\* C18 as stated: a task whose open found the destination in the hands of
\* another task that is still writing it returns Skipped.
C18_OtherSkips ==
    [][\A t \in Tasks :
        (tpc[t] \in {"OpenedExists", "OpenedErr"} /\ Writers(path[t]) # {}
             /\ tpc'[t] \in Returned) =>
            result'[t] = "Skipped"]_vars

\* C18 amended: no file is opened for writing more than once in a run and no
\* path has two tasks holding its File; a file changes only when an open
\* issued for it creates it, when the one task holding its File hands it
\* bytes or takes the error of a write, or when bytes that task handed over
\* reach the disk; and a task whose open of the destination completes while
\* another task holds the File changes no file, never holds the File, and
\* returns Skipped or, when the open fails for another reason than the file
\* being there, the error of the open.
C18_OneWriterPerPath ==
    /\ [](\A p \in Paths :
            /\ files[p] # None => Unwrap(files[p]).opened <= 1
            /\ Cardinality(Writers(p)) <= 1
            /\ Writers(p) # {} =>
                   files[p] # None /\ Unwrap(files[p]).opened = 1)
    /\ [][/\ \A p \in Paths : files'[p] # files[p] =>
                 \/ /\ files[p] = None
                    /\ files'[p] = Some(NewFile)
                    /\ \/ \E t \in Tasks :
                              /\ tpc[t] = "Opening" /\ path[t] = p
                              /\ Writers(p)' = {t}
                       \/ p \in orphans /\ p \notin orphans' /\ Writers(p)' = {}
                 \/ /\ files[p] # None /\ files'[p] # None
                    /\ Unwrap(files'[p]).opened = Unwrap(files[p]).opened
                    /\ Unwrap(files'[p]).size = Unwrap(files[p]).size
                    /\ \E t \in Writers(p) :
                           /\ Writers(p) = {t}
                           /\ tpc[t] \in {"Streaming", "Writing"}
                 \/ /\ files[p] # None /\ files'[p] # None
                    /\ Unwrap(files'[p]).opened = Unwrap(files[p]).opened
                    /\ Unwrap(files[p]).buffered > 0
                    /\ Unwrap(files'[p]).buffered = 0
                    /\ Unwrap(files'[p]).size >= Unwrap(files[p]).size
                    /\ Unwrap(files'[p]).size
                           <= Unwrap(files[p]).size + Unwrap(files[p]).buffered
                    /\ tpc' = tpc
          /\ \A t \in Tasks :
                 /\ (tpc[t] = "Opening" /\ Writers(path[t]) # {}
                         /\ tpc'[t] \notin {"Opening", "Dropped"}) =>
                        /\ tpc'[t] \in {"OpenedExists", "OpenedErr"}
                        /\ files' = files
                 /\ (tpc[t] \in {"OpenedExists", "OpenedErr"}
                         /\ tpc'[t] \notin {tpc[t], "Dropped"}) =>
                        /\ \/ tpc'[t] = "Ok" /\ result'[t] = "Skipped"
                           \/ tpc'[t] = "Err" /\ result'[t] = "OpenError"
                        /\ files' = files]_vars

\* C18 case: nothing but one file is in the output directory, created by
\* this run and still being written by one task; another task has returned
\* Skipped, and a third has returned Err while the join goes on.
C18_Witness ==
    \E t, u, v \in Tasks :
        /\ mainPc = "Joining"
        /\ tpc[t] = "Writing"
        /\ result[u] = "Skipped"
        /\ tpc[v] = "Err"
        /\ \A p \in Paths : files[p] # None <=> p = path[t]
        /\ Unwrap(files[path[t]]).opened = 1
        /\ Unwrap(files[path[t]]).buffered > 0

\* C19: in a run without failures no task starves: the run eventually is done
\* with success, every polled task, whether it had to resolve its file, wait
\* for a permit or was handed one, having obtained its permit exactly once
\* and returned Ok, all permits back, and all n_jobs bars finished, the
\* unused ones included.
C19_NoStarvation ==
    <>(/\ mainPc = "Done"
       /\ runError = ""
       /\ Bars = 1..jobs
       /\ \A i \in Bars : bars[i].finished
       /\ \A t \in Awaited : tpc[t] = "Ok" /\ acquired[t] = 1
       /\ \A t \in Tasks : tpc[t] \notin Live \ {"Created"}
       /\ waiters = <<>>
       /\ permits = jobs)

\* C19 case: with one permit, the oldest of two waiters was handed the
\* permit of a task that returned, and the other still waits.
C19_Witness ==
    /\ jobs = 1
    /\ \E t, u, v \in Tasks :
           /\ tpc[t] = "Ok" /\ acquired[t] = 1
           /\ tpc[u] = "Granted"
           /\ tpc[v] = "Waiting"
           /\ waiters = <<v>>

====
